---- MODULE Spec2Model ----
(***************************************************************************)
(* Model of the parcel-measurement repository:                             *)
(*   - the locker recommendation (api/measure-parcel.ts recommendLocker    *)
(*     and PhotoMeasure.recommendLocker of the React app),                 *)
(*   - the HTTP handler of POST /measure-parcel,                           *)
(*   - the PhotoMeasure component: photo loading, default placement, the   *)
(*     calibration and height lines with their round handles, the top      *)
(*     rectangle with its corner handles and body, the magnifier state,    *)
(*     the reference lengths, the memoised px-per-mm scales, the derived   *)
(*     measurements and the stepper.                                       *)
(*                                                                         *)
(* Numbers.  Millimetre quantities are held in tenths of a millimetre      *)
(* (110.2 mm is 1102), which is the resolution of every limit in the       *)
(* source.  Pixel coordinates are integers.                                *)
(***************************************************************************)
EXTENDS Integers, Sequences, FiniteSets, TLC

VARIABLES
    \* ---- pure recommendation functions under test ----
    args,        \* [lenMM, widMM, htMM] the arguments drawn for the call
    called,      \* TRUE once the functions have been applied to args
    apiRec,      \* result of api/measure-parcel.ts recommendLocker
    uiRec,       \* result of PhotoMeasure.recommendLocker
    \* ---- HTTP handler ----
    req,         \* the request handled last
    res,         \* the response written for it
    recCalls,    \* number of recommendLocker calls made while handling req
    \* ---- PhotoMeasure component (React state, one variable per useState) ----
    step,        \* 'top' | 'side'
    nextURL,     \* number of the next object URL that URL.createObjectURL makes
    topImgURL,   \* 0 is null, otherwise the number of the object URL
    topImgSize,
    topDecoding, \* readNaturalSize promises of onTopFile not yet resolved
    topPlaced,
    topCalA,
    topCalB,
    topCalReal,  \* tenths of a millimetre
    topRect,
    topPxPerMM,  \* value held by useMemo
    sideImgURL,
    sideImgSize,
    sideDecoding,
    sidePlaced,
    sideCalA,
    sideCalB,
    sideCalReal,
    sidePxPerMM,
    sideHeightA,
    sideHeightB,
    showMagTop,
    magTopPt,
    showMagSide,
    magSidePt,
    \* ---- RoundHandle instances (one per line endpoint) ----
    pointer,     \* the element that holds the captured pointer, or "none"
    downRef,     \* downRef.current of each handle
    rafRef,      \* the animation frame each handle has requested, if any
    pendingRef,  \* pendingRef.current of each handle
    \* ---- DraggableRect and its four CornerHandle instances ----
    cornerDown,  \* downRef.current of each corner handle
    bodyDown,    \* bodyDown.current
    dragOrigin,  \* dragOrigin.current
    rectOrigin   \* rectOrigin.current

apiVars == <<args, called, apiRec, uiRec, req, res, recCalls>>

topVars == <<topImgURL, topImgSize, topDecoding, topPlaced, topCalA, topCalB,
             topCalReal, topRect, topPxPerMM>>

sideVars == <<sideImgURL, sideImgSize, sideDecoding, sidePlaced, sideCalA, sideCalB,
              sideCalReal, sidePxPerMM, sideHeightA, sideHeightB>>

magVars == <<showMagTop, magTopPt, showMagSide, magSidePt>>

\* the refs of the round handles; the captured pointer is kept apart
roundVars == <<downRef, rafRef, pendingRef>>

rectVars == <<cornerDown, bodyDown, dragOrigin, rectOrigin>>

handleVars == <<pointer, roundVars, rectVars>>

uiVars == <<step, nextURL, topVars, sideVars, magVars, handleVars>>

vars == <<apiVars, uiVars>>

-----------------------------------------------------------------------------
(* Bounds of the model *)

\* every numeric limit of the source is explored within +/- MaxDelta tenths
MaxDelta == 1

\* number of photos selected (object URLs created) in one run of the component
MaxPhotos == 2

Near(v) == (v - MaxDelta)..(v + MaxDelta)

-----------------------------------------------------------------------------
(* Locker catalogue: LOCKER_SIZES, in tenths of a millimetre *)

LOCKER_SIZES ==
    [ small  |-> [length |-> 3850, width |-> 5000, height |-> 1102, label |-> "SMALL"],
      medium |-> [length |-> 3850, width |-> 5000, height |-> 2222, label |-> "MEDIUM"],
      large  |-> [length |-> 3850, width |-> 5000, height |-> 3010, label |-> "LARGE"] ]

\* const ordered = ["small", "medium", "large"]
ordered == <<"small", "medium", "large">>

Min(x, y) == IF x <= y THEN x ELSE y
Max(x, y) == IF x >= y THEN x ELSE y

\* mutant: the footprint is compared as given, without the min/max rotation
footprintFitsNoRotation(lenMM, widMM) ==
    lenMM <= LOCKER_SIZES.small.length /\ widMM <= LOCKER_SIZES.small.width

\* mutant: the footprint limits are exclusive
footprintFitsStrict(lenMM, widMM) ==
    LET a == Min(lenMM, widMM)
        b == Max(lenMM, widMM)
    IN  a < LOCKER_SIZES.small.length /\ b < LOCKER_SIZES.small.width

\* const a = Math.min(lenMM, widMM); const b = Math.max(lenMM, widMM);
\* const footprintFits = a <= small.length && b <= small.width;
footprintFits(lenMM, widMM) ==
    LET a == Min(lenMM, widMM)
        b == Max(lenMM, widMM)
    IN  a <= LOCKER_SIZES.small.length /\ b <= LOCKER_SIZES.small.width

\* mutant: the height limits are exclusive
tierFitsStrict(key, htMM) == htMM < LOCKER_SIZES[key].height

\* if (htMM <= spec.height)
tierFits(key, htMM) == htMM <= LOCKER_SIZES[key].height

\* for (const key of ordered) { ... return at the first key that fits }
\* index into ordered of the tier returned by the loop, 0 when it falls through
firstTier(htMM) ==
    LET fitting == {i \in 1..Len(ordered) : tierFits(ordered[i], htMM)}
    IN  IF fitting = {} THEN 0
        ELSE CHOOSE i \in fitting : \A j \in fitting : i <= j

specsOf(key) ==
    [length_mm |-> LOCKER_SIZES[key].length,
     width_mm  |-> LOCKER_SIZES[key].width,
     height_mm |-> LOCKER_SIZES[key].height]

\* mutant: a parcel that is too tall is reported with the footprint verdict
recommendLockerTallAsLarge(lenMM, widMM, htMM) ==
    LET dims == [length_mm |-> lenMM, width_mm |-> widMM, height_mm |-> htMM]
        i    == firstTier(htMM)
    IN  IF ~footprintFits(lenMM, widMM) \/ i = 0
        THEN [size |-> "TOO_LARGE", fits |-> FALSE, dimensions |-> dims,
              lockerSpecs |-> specsOf("small"),
              reason |-> [text |-> "footprint exceeds", ht |-> 0, limit |-> 0]]
        ELSE [size |-> LOCKER_SIZES[ordered[i]].label, fits |-> TRUE,
              dimensions |-> dims, lockerSpecs |-> specsOf(ordered[i]),
              reason |-> [text |-> "fits in", ht |-> htMM,
                          limit |-> LOCKER_SIZES[ordered[i]].height]]

\* api/measure-parcel.ts recommendLocker.  The reason string is kept as its
\* template and the two numbers it interpolates (htMM.toFixed(1) is exact on
\* tenths).
recommendLocker(lenMM, widMM, htMM) ==
    LET dims == [length_mm |-> lenMM, width_mm |-> widMM, height_mm |-> htMM]
        i    == firstTier(htMM)
    IN  IF ~footprintFits(lenMM, widMM)
        THEN [size |-> "TOO_LARGE", fits |-> FALSE, dimensions |-> dims,
              lockerSpecs |-> specsOf("small"),
              reason |-> [text |-> "footprint exceeds", ht |-> 0, limit |-> 0]]
        ELSE IF i # 0
        THEN [size |-> LOCKER_SIZES[ordered[i]].label, fits |-> TRUE,
              dimensions |-> dims, lockerSpecs |-> specsOf(ordered[i]),
              reason |-> [text |-> "fits in", ht |-> htMM,
                          limit |-> LOCKER_SIZES[ordered[i]].height]]
        ELSE [size |-> "TOO_TALL", fits |-> FALSE, dimensions |-> dims,
              lockerSpecs |-> specsOf("large"),
              reason |-> [text |-> "height exceeds", ht |-> htMM,
                          limit |-> LOCKER_SIZES.large.height]]

\* PhotoMeasure's own copy of the catalogue (const LOCKER_SIZES of the
\* component file), in tenths of a millimetre
uiLOCKER_SIZES ==
    [ small  |-> [length |-> 3850, width |-> 5000, height |-> 1102, label |-> "SMALL"],
      medium |-> [length |-> 3850, width |-> 5000, height |-> 2222, label |-> "MEDIUM"],
      large  |-> [length |-> 3850, width |-> 5000, height |-> 3010, label |-> "LARGE"] ]

\* PhotoMeasure.recommendLocker:
\* const a = Math.min(lenMM, widMM); const b = Math.max(lenMM, widMM);
\* const footprintFits = a <= small.length && b <= small.width;
uiFootprintFits(lenMM, widMM) ==
    LET a == Min(lenMM, widMM)
        b == Max(lenMM, widMM)
    IN  a <= uiLOCKER_SIZES.small.length /\ b <= uiLOCKER_SIZES.small.width

\* mutant: the component's height limits are exclusive
uiTierFitsStrict(key, htMM) == htMM < uiLOCKER_SIZES[key].height

\* PhotoMeasure.recommendLocker: if (htMM <= spec.height)
uiTierFits(key, htMM) == htMM <= uiLOCKER_SIZES[key].height

\* PhotoMeasure.recommendLocker: for (const key of ordered) { ... }: index
\* into ordered of the tier returned by the loop, 0 when it falls through
uiFirstTier(htMM) ==
    LET fitting == {i \in 1..Len(ordered) : uiTierFits(ordered[i], htMM)}
    IN  IF fitting = {} THEN 0
        ELSE CHOOSE i \in fitting : \A j \in fitting : i <= j

\* PhotoMeasure.recommendLocker; sizeKey null is the string "null"
uiRecommendLocker(lenMM, widMM, htMM) ==
    LET i == uiFirstTier(htMM)
    IN  IF ~uiFootprintFits(lenMM, widMM)
        THEN [label |-> "Too large for footprint", color |-> "#ff6b6b", sizeKey |-> "null"]
        ELSE IF i # 0
        THEN [label |-> uiLOCKER_SIZES[ordered[i]].label, color |-> "#36d399",
              sizeKey |-> ordered[i]]
        ELSE [label |-> "Height exceeds LARGE", color |-> "#ffb020", sizeKey |-> "null"]

\* the two result variables before any call
NoApiRec ==
    [size |-> "none", fits |-> FALSE,
     dimensions |-> [length_mm |-> 0, width_mm |-> 0, height_mm |-> 0],
     lockerSpecs |-> [length_mm |-> 0, width_mm |-> 0, height_mm |-> 0],
     reason |-> [text |-> "none", ht |-> 0, limit |-> 0]]

NoUiRec == [label |-> "none", color |-> "none", sizeKey |-> "null"]

-----------------------------------------------------------------------------
(* Argument values *)

\* lengths and widths around zero and around the two footprint limits, and the
\* values of the documented examples (180, 250, 390, 400 mm)
DimVals == Near(0) \cup Near(3850) \cup Near(5000) \cup {1800, 2500, 3900, 4000}

\* heights around zero and around the three height limits, and the values of
\* the documented examples (50, 95.8 mm)
HtVals == Near(0) \cup Near(1102) \cup Near(2222) \cup Near(3010) \cup {500, 958}

-----------------------------------------------------------------------------
(* POST /measure-parcel: api/measure-parcel.ts handler *)

\* A JSON value is [t |-> its JavaScript kind, v |-> its number]; v is 0 for
\* a value that is not a number.  Reading a property of a value that is not an
\* object gives Undefined.
Undefined == [t |-> "undefined", v |-> 0]
Num(n) == [t |-> "number", v |-> n]

\* what a field of measurements can hold: nothing, null, a string, a number
FieldVals(nums) ==
    {Undefined, [t |-> "null", v |-> 0], [t |-> "string", v |-> 0]}
        \cup {Num(n) : n \in nums}

NoFields == [kind |-> "undefined", length_mm |-> Undefined,
             width_mm |-> Undefined, height_mm |-> Undefined]

\* measurements: absent, null, a (non-empty) string, or an object
MeasurementsVals ==
    {[NoFields EXCEPT !.kind = k] : k \in {"undefined", "null", "string"}}
        \cup [kind : {"object"}, length_mm : FieldVals(DimVals),
              width_mm : FieldVals(DimVals), height_mm : FieldVals(HtVals)]

\* req.body: absent, null, a string (a text payload), or a JSON object
BodyVals ==
    {[kind |-> k, measurements |-> NoFields] : k \in {"undefined", "null", "string"}}
        \cup [kind : {"object"}, measurements : MeasurementsVals]

Methods == {"GET", "POST", "PUT", "DELETE", "OPTIONS"}

Requests == [method : Methods, body : BodyVals]

\* res.setHeader(...) x 3
corsHeaders ==
    [allowOrigin |-> "*", allowMethods |-> "POST, OPTIONS", allowHeaders |-> "Content-Type"]

\* mutant: GET is let through to the body handling
methodNotAllowedButGet(method) == method \notin {"POST", "GET"}

\* if (req.method !== 'POST')
methodNotAllowed(method) == method # "POST"

\* const { measurements, metadata } = req.body  throws a TypeError when
\* req.body is undefined or null
destructureThrows(body) == body.kind \in {"undefined", "null"}

\* the measurements property read from a body that is a string is undefined
measurementsOf(body) ==
    IF body.kind = "object" THEN body.measurements ELSE NoFields

\* !measurements || typeof measurements.length_mm !== 'number' || ...
invalidMeasurements(m) ==
    \/ m.kind \in {"undefined", "null"}
    \/ m.length_mm.t # "number"
    \/ m.width_mm.t # "number"
    \/ m.height_mm.t # "number"

\* mutant: zero is accepted as a dimension
nonPositiveStrict(length_mm, width_mm, height_mm) ==
    length_mm < 0 \/ width_mm < 0 \/ height_mm < 0

\* if (length_mm <= 0 || width_mm <= 0 || height_mm <= 0)
nonPositive(length_mm, width_mm, height_mm) ==
    length_mm <= 0 \/ width_mm <= 0 \/ height_mm <= 0

\* mutant: width and height are passed in the wrong order
recommendationSwapped(m) ==
    recommendLocker(m.length_mm.v, m.height_mm.v, m.width_mm.v)

\* const recommendation = recommendLocker(length_mm, width_mm, height_mm)
recommendation(m) ==
    recommendLocker(m.length_mm.v, m.width_mm.v, m.height_mm.v)

NoJson == [nothing |-> TRUE]

Response(status, sent, json) ==
    [status |-> status, sent |-> sent, json |-> json, headers |-> corsHeaders]

\* One run of handler on request r: the response it writes and the number
\* of recommendLocker calls it made.  A TypeError thrown in the try block is
\* caught and answered with 500.  The timestamp field of the success body is
\* the wall clock and is left out.
handlerRun(r) ==
    IF r.method = "OPTIONS"
    THEN [res |-> Response(200, "end", NoJson), recCalls |-> 0]
    ELSE IF methodNotAllowed(r.method)
    THEN [res |-> Response(405, "json", [error |-> "Method not allowed"]),
          recCalls |-> 0]
    ELSE IF destructureThrows(r.body)
    THEN [res |-> Response(500, "json",
                      [success |-> FALSE, error |-> "Internal server error"]),
          recCalls |-> 0]
    ELSE LET m == measurementsOf(r.body)
         IN  IF invalidMeasurements(m)
             THEN [res |-> Response(400, "json",
                               [success |-> FALSE, error |-> "Invalid measurements"]),
                   recCalls |-> 0]
             ELSE IF nonPositive(m.length_mm.v, m.width_mm.v, m.height_mm.v)
             THEN [res |-> Response(400, "json",
                               [success |-> FALSE,
                                error |-> "All dimensions must be positive numbers"]),
                   recCalls |-> 0]
             ELSE [res |-> Response(200, "json",
                               [success |-> TRUE,
                                lockerRecommendation |-> recommendation(m)]),
                   recCalls |-> 1]

-----------------------------------------------------------------------------
(* PhotoMeasure: geometry, scale and default placement *)

Pt(x, y) == [x |-> x, y |-> y]

\* Math.hypot(dx, dy), kept exact: the record stands for the real sqrt(rad)
Hypot(dx, dy) == [rad |-> dx * dx + dy * dy]

\* function dist(a: Pt, b: Pt)
dist(a, b) == Hypot(a.x - b.x, a.y - b.y)

\* A scale [rad, den] stands for sqrt(rad) pixels per den tenths of a
\* millimetre; the number 0 is ZeroScale.  den = 0 would be Infinity and
\* den < 0 a negative scale.
ZeroScale == [rad |-> 0, den |-> 1]

\* mutant: the reference length is not tested
resolveScaleNoRefGuard(a, b, real) ==
    LET dpx == dist(a, b)
    IN  IF dpx.rad > 0 THEN [rad |-> dpx.rad, den |-> real] ELSE ZeroScale

\* const dpx = dist(calA, calB);
\* return dpx > 0 && calReal > 0 ? (dpx / calReal) : 0;
resolveScale(a, b, real) ==
    LET dpx == dist(a, b)
    IN  IF dpx.rad > 0 /\ real > 0 THEN [rad |-> dpx.rad, den |-> real] ELSE ZeroScale

\* mutant: the dependency list of the memo leaves out the reference length
useMemoScaleNoRealDep(prev, oldDeps, newDeps) ==
    IF oldDeps[1] = newDeps[1] /\ oldDeps[2] = newDeps[2]
    THEN prev
    ELSE resolveScale(newDeps[1], newDeps[2], newDeps[3])

\* useMemo(() => ..., [calA, calB, calReal]): the held value is kept while the
\* three dependencies are unchanged and recomputed on the render after a change
useMemoScale(prev, oldDeps, newDeps) ==
    IF oldDeps = newDeps
    THEN prev
    ELSE resolveScale(newDeps[1], newDeps[2], newDeps[3])

\* px / (pxPerMM || 1) in tenths of a millimetre, kept exact: [num, rad]
\* stands for num / sqrt(rad).  A zero scale is replaced by 1 px per mm.
pxToMM(px, pxPerMM) ==
    IF pxPerMM.rad = 0
    THEN [num |-> 10 * px, rad |-> 1]
    ELSE [num |-> px * pxPerMM.den, rad |-> pxPerMM.rad]

topWmm == pxToMM(topRect.w, topPxPerMM)
topHmm == pxToMM(topRect.h, topPxPerMM)

\* mutant: the first argument is taken whatever the second is
maxMMFirst(a, b) == a

\* Math.max of two values over the same scale
maxMM(a, b) == IF a.num >= b.num THEN a ELSE b

\* Math.min of two values over the same scale
minMM(a, b) == IF a.num >= b.num THEN b ELSE a

lengthMM == maxMM(topWmm, topHmm)
widthMM  == minMM(topWmm, topHmm)

RECURSIVE GCD(_, _)
GCD(a, b) == IF b = 0 THEN a ELSE GCD(b, a % b)

\* the exact quotient (a * b) / d of naturals as a fraction in lowest terms
mulDiv(a, b, d) ==
    LET g1 == GCD(a, d)
        d1 == d \div g1
        g2 == GCD(b, d1)
    IN  [num |-> (a \div g1) * (b \div g2), den |-> d1 \div g2]

\* (lengthMM * widthMM) / 100 in square centimetres, as a fraction in lowest
\* terms: the two lengths are tenths of a millimetre over the same root
areaCM2 == mulDiv(lengthMM.num, widthMM.num, lengthMM.rad * 100 * 100)

\* dist(sideHeightA, sideHeightB) / (sidePxPerMM || 1) in tenths of a
\* millimetre, kept exact: [num, radN, rad] stands for
\* num * sqrt(radN) / sqrt(rad)
heightMM ==
    LET d == dist(sideHeightA, sideHeightB)
    IN  IF sidePxPerMM.rad = 0
        THEN [num |-> 10, radN |-> d.rad, rad |-> 1]
        ELSE [num |-> sidePxPerMM.den, radN |-> d.rad, rad |-> sidePxPerMM.rad]

\* const rec = recommendLocker(lengthMM, widthMM, heightMM): the arguments of
\* the call every render of PhotoMeasure makes
recArgs == [lenMM |-> lengthMM, widMM |-> widthMM, htMM |-> heightMM]

\* mutant: the extents of the rectangle are not tested
stepDoneTopURLOnly == topImgURL # 0

\* Number.isFinite(lengthMM) && Number.isFinite(widthMM) && lengthMM > 0 &&
\* widthMM > 0 && !!topImgURL   (every value of the model is finite)
stepDoneTop == lengthMM.num > 0 /\ widthMM.num > 0 /\ topImgURL # 0

\* Number.isFinite(heightMM) && heightMM > 0 && !!sideImgURL
stepDoneSide == heightMM.num > 0 /\ heightMM.radN > 0 /\ sideImgURL # 0

\* {(stepDoneTop && stepDoneSide) && <div className="result">...}, inside the
\* block of the side step
resultShown == step = "side" /\ stepDoneTop /\ stepDoneSide

\* function clamp(n, min, max) { return Math.max(min, Math.min(max, n)); }
clamp(n, min, max) == Max(min, Min(max, n))

\* natural sizes of the photos; multiples of 40 keep the placement integral
ImgSizes == {[w |-> 40, h |-> 40]}

NoSize == [w |-> 0, h |-> 0]

\* the placement effects fire when
\*   imgURL && imgSize.w > 0 && imgSize.h > 0 && !placed
placementDue(url, sz, placed) == url # 0 /\ sz.w > 0 /\ sz.h > 0 /\ ~placed

\* const len = Math.min(w, h) * 0.3;  calA = { x: cx - len/2, y: cy }
placedCalA(sz) == Pt(sz.w \div 2 - (3 * Min(sz.w, sz.h)) \div 20, sz.h \div 2)
placedCalB(sz) == Pt(sz.w \div 2 + (3 * Min(sz.w, sz.h)) \div 20, sz.h \div 2)

\* setSideHeightA({ x: cx, y: cy - len/2 }); setSideHeightB({ x: cx, y: cy + len/2 })
placedHeightA(sz) == Pt(sz.w \div 2, sz.h \div 2 - (3 * Min(sz.w, sz.h)) \div 20)
placedHeightB(sz) == Pt(sz.w \div 2, sz.h \div 2 + (3 * Min(sz.w, sz.h)) \div 20)

\* const rw = w * 0.45, rh = h * 0.35;  { x: cx - rw/2, y: cy - rh/2, w: rw, h: rh }
placedRect(sz) ==
    [x |-> sz.w \div 2 - (9 * sz.w) \div 40, y |-> sz.h \div 2 - (7 * sz.h) \div 40,
     w |-> (9 * sz.w) \div 20, h |-> (7 * sz.h) \div 20]

\* the position the pointer reports while a handle of a calibration line is
\* dragged in the calibration flow: a point at distance 5 from the placed
\* start of the line, where both ends of a line can be brought to coincide
DragPts == {Pt(17, 24)}

\* positions the pointer reports while a corner of the rectangle is dragged:
\* a point of the placed rectangle and a point outside the photo
CornerPts == {Pt(17, 24), Pt(60, 70)}

\* positions the pointer reports while the body of the rectangle is dragged:
\* a point of the rectangle of the first render and one of the placed one
BodyPts == {Pt(130, 130), Pt(17, 24)}

\* the position the pointer reports in the measuring flow: a point of the
\* photo beyond the bottom-right corner of the placed rectangle
GatePts == {Pt(30, 30)}

\* positions the pointer reports while gestures are followed event by event
GesturePts == {Pt(14, 20), Pt(17, 24)}

\* the elements touched while gestures are followed event by event: one end
\* of the calibration line, one corner of the rectangle, and its body
GestureHandles == {"topCalA"}
GestureCorners == {"br"}

\* natural sizes that img.onload can report for the photo behind object URL u
\* while the loading of photos is followed: photo u is 40 * u pixels wide, so
\* that a size names the photo it was read from, and 40 pixels high, or 0 for
\* an image without intrinsic height
LoadSizes(u) == {[w |-> 40 * u, h |-> 40], [w |-> 40 * u, h |-> 0]}

\* the edits made while the loading of photos is followed: the bottom-right
\* corner of the rectangle and the upper end of the height line, each dragged
\* to one point of the photo
LoadPts == {Pt(30, 30)}
LoadCorners == {"br"}
LoadHandles == {"sideHeightA"}

\* values typed into the "Ref length (mm)" input: Number(e.target.value) is
\* any finite number, 0 for an empty field
RefLens == {-10, 0, 856}

\* the round handles: the two ends of each CalibrationLine
Handles == {"topCalA", "topCalB", "sideCalA", "sideCalB", "sideHeightA", "sideHeightB"}

TopHandles == {"topCalA", "topCalB"}

\* the ends of the two calibration lines (variant 'cal')
CalHandles == {"topCalA", "topCalB", "sideCalA", "sideCalB"}

\* the ends of the height line (variant 'measure')
HeightHandles == {"sideHeightA", "sideHeightB"}

\* corners: tl, tr, br, bl
Corners == {"tl", "tr", "br", "bl"}

\* the (ix, iy) a corner handle passes to setCorner
cornerIx(c) == IF c \in {"tl", "bl"} THEN 0 ELSE 1
cornerIy(c) == IF c \in {"tl", "tr"} THEN 0 ELSE 1

\* the x and y props of a corner handle
cornerAt(c, rect) ==
    Pt(IF cornerIx(c) = 0 THEN rect.x ELSE rect.x + rect.w,
       IF cornerIy(c) = 0 THEN rect.y ELSE rect.y + rect.h)

\* mutant: the dragged point is taken as it is, past the opposite corner too
setCornerNoMinMax(ix, iy, p) ==
    LET x == topRect.x
        y == topRect.y
        w == topRect.w
        h == topRect.h
        left   == IF ix = 0 THEN p.x ELSE x
        top    == IF iy = 0 THEN p.y ELSE y
        right  == IF ix = 0 THEN x + w ELSE p.x
        bottom == IF iy = 0 THEN y + h ELSE p.y
    IN  [x |-> left, y |-> top, w |-> right - left, h |-> bottom - top]

\* DraggableRect.setCorner: the rectangle handed to onChange
setCorner(ix, iy, p) ==
    LET x == topRect.x
        y == topRect.y
        w == topRect.w
        h == topRect.h
        nx == IF ix = 0 THEN Min(p.x, x + w) ELSE Max(p.x, x)
        ny == IF iy = 0 THEN Min(p.y, y + h) ELSE Max(p.y, y)
        left   == IF ix = 0 THEN nx ELSE x
        top    == IF iy = 0 THEN ny ELSE y
        right  == IF ix = 0 THEN x + w ELSE nx
        bottom == IF iy = 0 THEN y + h ELSE ny
    IN  [x |-> left, y |-> top, w |-> right - left, h |-> bottom - top]

\* DraggableRect.onBodyMove: the rectangle handed to onChange; bounds is
\* topImgSize, an object, so the branch if (bounds) is always taken
bodyMoved(pt) ==
    LET nx == rectOrigin.x + (pt.x - dragOrigin.x)
        ny == rectOrigin.y + (pt.y - dragOrigin.y)
    IN  [x |-> clamp(nx, 0, Max(0, topImgSize.w - topRect.w)),
         y |-> clamp(ny, 0, Max(0, topImgSize.h - topRect.h)),
         w |-> topRect.w, h |-> topRect.h]

\* the pointer is over the <rect> element
inRect(p, rect) ==
    /\ rect.x <= p.x /\ p.x <= rect.x + rect.w
    /\ rect.y <= p.y /\ p.y <= rect.y + rect.h

\* the pointer is over <circle r={100} className="handleHit"> drawn at c
inHandleHit(p, c) == dist(p, c).rad <= 100 * 100

\* no animation frame requested: rafRef.current == null
NoRaf == [set |-> FALSE, other |-> Pt(0, 0)]

\* pendingRef.current == null
NoPending == [set |-> FALSE, p |-> Pt(0, 0)]

\* the state of PhotoMeasure and of its handles after the first render
UiIdle ==
    /\ step = "top"
    /\ nextURL = 1
    /\ topImgURL = 0
    /\ topImgSize = NoSize
    /\ topDecoding = {}
    /\ topPlaced = FALSE
    /\ topCalA = Pt(80, 80)
    /\ topCalB = Pt(260, 80)
    /\ topCalReal = 856
    /\ topRect = [x |-> 120, y |-> 120, w |-> 220, h |-> 160]
    /\ topPxPerMM = resolveScale(Pt(80, 80), Pt(260, 80), 856)
    /\ sideImgURL = 0
    /\ sideImgSize = NoSize
    /\ sideDecoding = {}
    /\ sidePlaced = FALSE
    /\ sideCalA = Pt(80, 80)
    /\ sideCalB = Pt(260, 80)
    /\ sideCalReal = 856
    /\ sidePxPerMM = resolveScale(Pt(80, 80), Pt(260, 80), 856)
    /\ sideHeightA = Pt(180, 120)
    /\ sideHeightB = Pt(180, 260)
    /\ showMagTop = FALSE
    /\ magTopPt = Pt(0, 0)
    /\ showMagSide = FALSE
    /\ magSidePt = Pt(0, 0)
    /\ pointer = "none"
    /\ downRef = [h \in Handles |-> FALSE]
    /\ rafRef = [h \in Handles |-> NoRaf]
    /\ pendingRef = [h \in Handles |-> NoPending]
    /\ cornerDown = [c \in Corners |-> FALSE]
    /\ bodyDown = FALSE
    /\ dragOrigin = Pt(0, 0)
    /\ rectOrigin = Pt(120, 120)

NoReq == [method |-> "none", body |-> [kind |-> "undefined", measurements |-> NoFields]]
NoRes == Response(0, "nothing", NoJson)

ApiIdle == req = NoReq /\ res = NoRes /\ recCalls = 0

RecIdle ==
    /\ args = [lenMM |-> 0, widMM |-> 0, htMM |-> 0]
    /\ called = FALSE
    /\ apiRec = NoApiRec
    /\ uiRec = NoUiRec

ApiInit == RecIdle /\ ApiIdle /\ UiIdle

\* One invocation of the serverless function, on request r.  The function
\* keeps no state between invocations, so a behaviour is one invocation.
Handler ==
    /\ req = NoReq
    /\ \E r \in Requests :
          /\ req' = r
          /\ res' = handlerRun(r).res
          /\ recCalls' = handlerRun(r).recCalls
    /\ UNCHANGED <<args, called, apiRec, uiRec, uiVars>>

ApiNext == Handler

-----------------------------------------------------------------------------
(* The pure functions applied to drawn arguments *)

RecInit ==
    /\ args \in [lenMM : DimVals, widMM : DimVals, htMM : HtVals]
    /\ called = FALSE
    /\ apiRec = NoApiRec
    /\ uiRec = NoUiRec
    /\ ApiIdle
    /\ UiIdle

\* one call of each recommendLocker on the drawn arguments
Recommend ==
    /\ ~called
    /\ called' = TRUE
    /\ apiRec' = recommendLocker(args.lenMM, args.widMM, args.htMM)
    /\ uiRec' = uiRecommendLocker(args.lenMM, args.widMM, args.htMM)
    /\ UNCHANGED <<args, req, res, recCalls, uiVars>>

RecNext == Recommend

-----------------------------------------------------------------------------
(* PhotoMeasure: event handlers.  Every handler ends with the render it       *)
(* causes: the placement effect runs if it is due and the scale memo is      *)
(* re-evaluated.  One pointer is followed; while an element has captured it  *)
(* the events go to that element, otherwise to the element under it.         *)

\* State of the top photo after a handler has set (url, sz, placed, a, b,
\* real, rect): first render, then the placement effect of the top photo and
\* the render it causes.
TopCommit(url, sz, placed, a, b, real, rect) ==
    LET due   == placementDue(url, sz, placed)
        a2    == IF due THEN placedCalA(sz) ELSE a
        b2    == IF due THEN placedCalB(sz) ELSE b
        memo1 == useMemoScale(topPxPerMM, <<topCalA, topCalB, topCalReal>>,
                              <<a, b, real>>)
    IN  /\ topImgURL' = url
        /\ topImgSize' = sz
        /\ topPlaced' = (placed \/ due)
        /\ topCalA' = a2
        /\ topCalB' = b2
        /\ topCalReal' = real
        /\ topRect' = IF due THEN placedRect(sz) ELSE rect
        /\ topPxPerMM' = useMemoScale(memo1, <<a, b, real>>, <<a2, b2, real>>)

\* the same for the side photo, whose effect places the height line too
SideCommit(url, sz, placed, a, b, real, ha, hb) ==
    LET due   == placementDue(url, sz, placed)
        a2    == IF due THEN placedCalA(sz) ELSE a
        b2    == IF due THEN placedCalB(sz) ELSE b
        memo1 == useMemoScale(sidePxPerMM, <<sideCalA, sideCalB, sideCalReal>>,
                              <<a, b, real>>)
    IN  /\ sideImgURL' = url
        /\ sideImgSize' = sz
        /\ sidePlaced' = (placed \/ due)
        /\ sideCalA' = a2
        /\ sideCalB' = b2
        /\ sideCalReal' = real
        /\ sideHeightA' = IF due THEN placedHeightA(sz) ELSE ha
        /\ sideHeightB' = IF due THEN placedHeightB(sz) ELSE hb
        /\ sidePxPerMM' = useMemoScale(memo1, <<a, b, real>>, <<a2, b2, real>>)

\* onTopFile up to its await: a photo of natural size sz is chosen
onTopFile(sz) ==
    /\ step = "top"
    /\ pointer = "none"
    /\ nextURL <= MaxPhotos
    /\ nextURL' = nextURL + 1
    /\ topDecoding' = topDecoding \cup {[url |-> nextURL, sz |-> sz]}
    /\ TopCommit(nextURL, topImgSize, topPlaced, topCalA, topCalB, topCalReal, topRect)
    /\ UNCHANGED <<step, sideVars, magVars, handleVars, apiVars>>

\* onTopFile after its await: img.onload resolved the promise of decode d
topDecoded(d) ==
    /\ d \in topDecoding
    /\ topDecoding' = topDecoding \ {d}
    /\ TopCommit(topImgURL, d.sz, FALSE, topCalA, topCalB, topCalReal, topRect)
    /\ UNCHANGED <<step, nextURL, sideVars, magVars, handleVars, apiVars>>

\* onSideFile up to its await
onSideFile(sz) ==
    /\ step = "side"
    /\ pointer = "none"
    /\ nextURL <= MaxPhotos
    /\ nextURL' = nextURL + 1
    /\ sideDecoding' = sideDecoding \cup {[url |-> nextURL, sz |-> sz]}
    /\ SideCommit(nextURL, sideImgSize, sidePlaced, sideCalA, sideCalB, sideCalReal,
                  sideHeightA, sideHeightB)
    /\ UNCHANGED <<step, topVars, magVars, handleVars, apiVars>>

\* onSideFile after its await
sideDecoded(d) ==
    /\ d \in sideDecoding
    /\ sideDecoding' = sideDecoding \ {d}
    /\ SideCommit(sideImgURL, d.sz, FALSE, sideCalA, sideCalB, sideCalReal,
                  sideHeightA, sideHeightB)
    /\ UNCHANGED <<step, nextURL, topVars, magVars, handleVars, apiVars>>

\* onChange of the top "Ref length (mm)" input
setTopCalReal(v) ==
    /\ step = "top"
    /\ TopCommit(topImgURL, topImgSize, topPlaced, topCalA, topCalB, v, topRect)
    /\ UNCHANGED <<step, nextURL, topDecoding, sideVars, magVars, handleVars, apiVars>>

\* onChange of the side "Ref length (mm)" input
setSideCalReal(v) ==
    /\ step = "side"
    /\ SideCommit(sideImgURL, sideImgSize, sidePlaced, sideCalA, sideCalB, v,
                  sideHeightA, sideHeightB)
    /\ UNCHANGED <<step, nextURL, sideDecoding, topVars, magVars, handleVars, apiVars>>

\* the stage of a step, and the handles in it, are mounted anew whenever the
\* step is shown: every ref starts from its useRef value, rectOrigin from the
\* position of the rectangle.  No pointer is captured when a stepper button
\* is clicked.
freshHandles ==
    /\ pointer' = "none"
    /\ downRef' = [h \in Handles |-> FALSE]
    /\ rafRef' = [h \in Handles |-> NoRaf]
    /\ pendingRef' = [h \in Handles |-> NoPending]
    /\ cornerDown' = [c \in Corners |-> FALSE]
    /\ bodyDown' = FALSE
    /\ dragOrigin' = Pt(0, 0)
    /\ rectOrigin' = Pt(topRect.x, topRect.y)

\* mutant: the button is never disabled
setStepSideNotGated ==
    /\ step = "top"
    /\ pointer = "none"
    /\ step' = "side"
    /\ freshHandles
    /\ UNCHANGED <<nextURL, topVars, sideVars, magVars, apiVars>>

\* "2. Side View" and "Next": onClick setStep('side'), disabled={!stepDoneTop}
setStepSide ==
    /\ step = "top"
    /\ pointer = "none"
    /\ stepDoneTop
    /\ step' = "side"
    /\ freshHandles
    /\ UNCHANGED <<nextURL, topVars, sideVars, magVars, apiVars>>

\* "1. Top View" and "Back": onClick setStep('top')
setStepTop ==
    /\ step = "side"
    /\ pointer = "none"
    /\ step' = "top"
    /\ freshHandles
    /\ UNCHANGED <<nextURL, topVars, sideVars, magVars, apiVars>>

\* a round handle is rendered when its step is shown and its photo is chosen
mounted(h) ==
    IF h \in TopHandles
    THEN step = "top" /\ topImgURL # 0
    ELSE step = "side" /\ sideImgURL # 0

\* the same for the rectangle and its corner handles
rectMounted == step = "top" /\ topImgURL # 0

\* the endpoint that handle h moves: its x and y props
posOf(h) ==
    CASE h = "topCalA"     -> topCalA
      [] h = "topCalB"     -> topCalB
      [] h = "sideCalA"    -> sideCalA
      [] h = "sideCalB"    -> sideCalB
      [] h = "sideHeightA" -> sideHeightA
      [] h = "sideHeightB" -> sideHeightB

\* the endpoint of the line that handle h does not move
otherEnd(h) ==
    CASE h = "topCalA"     -> topCalB
      [] h = "topCalB"     -> topCalA
      [] h = "sideCalA"    -> sideCalB
      [] h = "sideCalB"    -> sideCalA
      [] h = "sideHeightA" -> sideHeightB
      [] h = "sideHeightB" -> sideHeightA

\* onDragStart={(p)=>{ setShowMagTop(true); setMagTopPt(p); }} and its side twin
onDragStart(top, p) ==
    IF top
    THEN showMagTop' = TRUE /\ magTopPt' = p /\ UNCHANGED <<showMagSide, magSidePt>>
    ELSE showMagSide' = TRUE /\ magSidePt' = p /\ UNCHANGED <<showMagTop, magTopPt>>

\* onDragMove={(p)=>setMagTopPt(p)} and its side twin
onDragMove(top, p) ==
    IF top
    THEN magTopPt' = p /\ UNCHANGED <<showMagTop, showMagSide, magSidePt>>
    ELSE magSidePt' = p /\ UNCHANGED <<showMagSide, showMagTop, magTopPt>>

\* onDragEnd={()=>setShowMagTop(false)} and its side twin
onDragEnd(top) ==
    IF top
    THEN showMagTop' = FALSE /\ UNCHANGED <<magTopPt, showMagSide, magSidePt>>
    ELSE showMagSide' = FALSE /\ UNCHANGED <<magSidePt, showMagTop, magTopPt>>

\* RoundHandle.onDown: setPointerCapture, downRef.current = true,
\* onDragStart?.(p).  The press is on the centre of the handle.
onDown(h) ==
    /\ pointer = "none"
    /\ mounted(h)
    /\ pointer' = h
    /\ downRef' = [downRef EXCEPT ![h] = TRUE]
    /\ onDragStart(h \in TopHandles, posOf(h))
    /\ UNCHANGED <<step, nextURL, topVars, sideVars, rafRef, pendingRef, rectVars, apiVars>>

\* RoundHandle.onMove with the pointer at p.  The requested frame runs the
\* flush of this render, whose onDrag holds the other endpoint as it is now.
onMove(h, p) ==
    /\ mounted(h)
    /\ \/ pointer = h
       \/ pointer = "none" /\ inHandleHit(p, posOf(h))
    /\ IF ~downRef[h]
       THEN UNCHANGED <<pendingRef, rafRef>>
       ELSE /\ pendingRef' = [pendingRef EXCEPT ![h] = [set |-> TRUE, p |-> p]]
            /\ rafRef' = IF rafRef[h].set THEN rafRef
                         ELSE [rafRef EXCEPT ![h] = [set |-> TRUE, other |-> otherEnd(h)]]
    /\ UNCHANGED <<step, nextURL, topVars, sideVars, magVars, pointer, downRef,
                   rectVars, apiVars>>

\* CalibrationLine: onDrag of handle A is onChange(p, b), of handle B
\* onChange(a, p); onChange sets both endpoints
onDrag(h, p, other) ==
    CASE h = "topCalA" ->
            /\ TopCommit(topImgURL, topImgSize, topPlaced, p, other, topCalReal, topRect)
            /\ UNCHANGED <<topDecoding, sideVars>>
      [] h = "topCalB" ->
            /\ TopCommit(topImgURL, topImgSize, topPlaced, other, p, topCalReal, topRect)
            /\ UNCHANGED <<topDecoding, sideVars>>
      [] h = "sideCalA" ->
            /\ SideCommit(sideImgURL, sideImgSize, sidePlaced, p, other, sideCalReal,
                          sideHeightA, sideHeightB)
            /\ UNCHANGED <<sideDecoding, topVars>>
      [] h = "sideCalB" ->
            /\ SideCommit(sideImgURL, sideImgSize, sidePlaced, other, p, sideCalReal,
                          sideHeightA, sideHeightB)
            /\ UNCHANGED <<sideDecoding, topVars>>
      [] h = "sideHeightA" ->
            /\ SideCommit(sideImgURL, sideImgSize, sidePlaced, sideCalA, sideCalB,
                          sideCalReal, p, other)
            /\ UNCHANGED <<sideDecoding, topVars>>
      [] h = "sideHeightB" ->
            /\ SideCommit(sideImgURL, sideImgSize, sidePlaced, sideCalA, sideCalB,
                          sideCalReal, other, p)
            /\ UNCHANGED <<sideDecoding, topVars>>

\* RoundHandle.flush, the animation-frame callback
flush(h) ==
    /\ rafRef[h].set
    /\ rafRef' = [rafRef EXCEPT ![h] = NoRaf]
    /\ IF pendingRef[h].set
       THEN /\ onDrag(h, pendingRef[h].p, rafRef[h].other)
            /\ onDragMove(h \in TopHandles, pendingRef[h].p)
            /\ pendingRef' = [pendingRef EXCEPT ![h] = NoPending]
       ELSE UNCHANGED <<topVars, sideVars, magVars, pendingRef>>
    /\ UNCHANGED <<step, nextURL, pointer, downRef, rectVars, apiVars>>

\* RoundHandle.onUp: downRef.current = false, the requested frame is
\* cancelled, onDragEnd?.()
onUp(h) ==
    /\ pointer = h
    /\ pointer' = "none"
    /\ downRef' = [downRef EXCEPT ![h] = FALSE]
    /\ rafRef' = [rafRef EXCEPT ![h] = NoRaf]
    /\ onDragEnd(h \in TopHandles)
    /\ UNCHANGED <<step, nextURL, topVars, sideVars, pendingRef, rectVars, apiVars>>

\* CornerHandle.onDown: setPointerCapture, downRef.current = true,
\* onDragStart?.(getLocal(e)).  The press is on the centre of the handle.
cornerOnDown(c) ==
    /\ pointer = "none"
    /\ rectMounted
    /\ pointer' = c
    /\ cornerDown' = [cornerDown EXCEPT ![c] = TRUE]
    /\ onDragStart(TRUE, cornerAt(c, topRect))
    /\ UNCHANGED <<step, nextURL, topVars, sideVars, roundVars, bodyDown, dragOrigin,
                   rectOrigin, apiVars>>

\* CornerHandle.onMove: if (!downRef.current) return; onDrag(getLocal(e)),
\* which is setCorner(ix, iy, p) of the corner
cornerOnMove(c, p) ==
    /\ rectMounted
    /\ \/ pointer = c
       \/ pointer = "none" /\ inHandleHit(p, cornerAt(c, topRect))
    /\ IF ~cornerDown[c]
       THEN UNCHANGED topVars
       ELSE /\ TopCommit(topImgURL, topImgSize, topPlaced, topCalA, topCalB, topCalReal,
                         setCorner(cornerIx(c), cornerIy(c), p))
            /\ UNCHANGED topDecoding
    /\ UNCHANGED <<step, nextURL, sideVars, magVars, handleVars, apiVars>>

\* CornerHandle.onUp: downRef.current = false; onDragEnd?.()
cornerOnUp(c) ==
    /\ pointer = c
    /\ pointer' = "none"
    /\ cornerDown' = [cornerDown EXCEPT ![c] = FALSE]
    /\ onDragEnd(TRUE)
    /\ UNCHANGED <<step, nextURL, topVars, sideVars, roundVars, bodyDown, dragOrigin,
                   rectOrigin, apiVars>>

\* DraggableRect.onBodyDown with the pointer at pt, a point of the rectangle
onBodyDown(pt) ==
    /\ pointer = "none"
    /\ rectMounted
    /\ inRect(pt, topRect)
    /\ pointer' = "body"
    /\ bodyDown' = TRUE
    /\ dragOrigin' = pt
    /\ rectOrigin' = Pt(topRect.x, topRect.y)
    /\ onDragStart(TRUE, pt)
    /\ UNCHANGED <<step, nextURL, topVars, sideVars, roundVars, cornerDown, apiVars>>

\* DraggableRect.onBodyMove with the pointer at pt; no onDragMove is passed
\* to the rectangle
onBodyMove(pt) ==
    /\ rectMounted
    /\ \/ pointer = "body"
       \/ pointer = "none" /\ inRect(pt, topRect)
    /\ IF ~bodyDown
       THEN UNCHANGED topVars
       ELSE /\ TopCommit(topImgURL, topImgSize, topPlaced, topCalA, topCalB, topCalReal,
                         bodyMoved(pt))
            /\ UNCHANGED topDecoding
    /\ UNCHANGED <<step, nextURL, sideVars, magVars, handleVars, apiVars>>

\* DraggableRect.onBodyUp: bodyDown.current = false; onDragEnd?.()
onBodyUp ==
    /\ pointer = "body"
    /\ pointer' = "none"
    /\ bodyDown' = FALSE
    /\ onDragEnd(TRUE)
    /\ UNCHANGED <<step, nextURL, topVars, sideVars, roundVars, cornerDown, dragOrigin,
                   rectOrigin, apiVars>>

\* The browser cancels the pointer (pointercancel) and releases the capture.
\* No element of the component binds onPointerCancel, so no handler runs.
pointerCancel ==
    /\ pointer # "none"
    /\ pointer' = "none"
    /\ UNCHANGED <<step, nextURL, topVars, sideVars, magVars, roundVars, rectVars, apiVars>>

UiInit == RecIdle /\ ApiIdle /\ UiIdle

\* the calibration flow: both steps, photos, reference lengths and the
\* handles of the two calibration lines
UiNext ==
    \/ \E sz \in ImgSizes : onTopFile(sz)
    \/ \E d \in topDecoding : topDecoded(d)
    \/ \E sz \in ImgSizes : onSideFile(sz)
    \/ \E d \in sideDecoding : sideDecoded(d)
    \/ \E v \in RefLens : setTopCalReal(v)
    \/ \E v \in RefLens : setSideCalReal(v)
    \/ setStepSide
    \/ setStepTop
    \/ \E h \in CalHandles : onDown(h)
    \/ \E h \in CalHandles, p \in DragPts : onMove(h, p)
    \/ \E h \in CalHandles : flush(h)
    \/ \E h \in CalHandles : onUp(h)

\* resizing the top rectangle: the top step with its photos and the four
\* corner handles of the rectangle
CornerNext ==
    \/ \E sz \in ImgSizes : onTopFile(sz)
    \/ \E d \in topDecoding : topDecoded(d)
    \/ \E c \in Corners : cornerOnDown(c)
    \/ \E c \in Corners, p \in CornerPts : cornerOnMove(c, p)
    \/ \E c \in Corners : cornerOnUp(c)

\* moving the top rectangle: the top step with its photos and the body of
\* the rectangle
BodyNext ==
    \/ \E sz \in ImgSizes : onTopFile(sz)
    \/ \E d \in topDecoding : topDecoded(d)
    \/ \E p \in BodyPts : onBodyDown(p)
    \/ \E p \in BodyPts : onBodyMove(p)
    \/ onBodyUp

\* the measuring flow: both steps, photos, the corner handles of the
\* rectangle and the handles of the height line
GateNext ==
    \/ \E sz \in ImgSizes : onTopFile(sz)
    \/ \E d \in topDecoding : topDecoded(d)
    \/ \E sz \in ImgSizes : onSideFile(sz)
    \/ \E d \in sideDecoding : sideDecoded(d)
    \/ setStepSide
    \/ setStepTop
    \/ \E c \in Corners : cornerOnDown(c)
    \/ \E c \in Corners, p \in GatePts : cornerOnMove(c, p)
    \/ \E c \in Corners : cornerOnUp(c)
    \/ \E h \in HeightHandles : onDown(h)
    \/ \E h \in HeightHandles, p \in GatePts : onMove(h, p)
    \/ \E h \in HeightHandles : flush(h)
    \/ \E h \in HeightHandles : onUp(h)

\* gestures on the top stage followed event by event, pointer cancellation
\* and the moves of a pointer that is not captured included
GestureNext ==
    \/ \E sz \in ImgSizes : onTopFile(sz)
    \/ \E d \in topDecoding : topDecoded(d)
    \/ \E h \in GestureHandles : onDown(h)
    \/ \E h \in GestureHandles, p \in GesturePts : onMove(h, p)
    \/ \E h \in GestureHandles : flush(h)
    \/ \E h \in GestureHandles : onUp(h)
    \/ \E c \in GestureCorners : cornerOnDown(c)
    \/ \E c \in GestureCorners, p \in GesturePts : cornerOnMove(c, p)
    \/ \E c \in GestureCorners : cornerOnUp(c)
    \/ \E p \in BodyPts : onBodyDown(p)
    \/ \E p \in BodyPts : onBodyMove(p)
    \/ onBodyUp
    \/ pointerCancel

\* the loading of photos: both steps, photos whose size names them, decodes
\* resolving in any order, and one edit of the rectangle and of the height line
LoadNext ==
    \/ \E sz \in LoadSizes(nextURL) : onTopFile(sz)
    \/ \E d \in topDecoding : topDecoded(d)
    \/ \E sz \in LoadSizes(nextURL) : onSideFile(sz)
    \/ \E d \in sideDecoding : sideDecoded(d)
    \/ setStepSide
    \/ setStepTop
    \/ \E c \in LoadCorners : cornerOnDown(c)
    \/ \E c \in LoadCorners, p \in LoadPts : cornerOnMove(c, p)
    \/ \E c \in LoadCorners : cornerOnUp(c)
    \/ \E h \in LoadHandles : onDown(h)
    \/ \E h \in LoadHandles, p \in LoadPts : onMove(h, p)
    \/ \E h \in LoadHandles : flush(h)
    \/ \E h \in LoadHandles : onUp(h)

SpecRec == RecInit /\ [][RecNext]_vars
SpecApi == ApiInit /\ [][ApiNext]_vars
SpecUI == UiInit /\ [][UiNext]_vars
SpecCorner == UiInit /\ [][CornerNext]_vars
SpecBody == UiInit /\ [][BodyNext]_vars
SpecGate == UiInit /\ [][GateNext]_vars
SpecGesture == UiInit /\ [][GestureNext]_vars
SpecLoad == UiInit /\ [][LoadNext]_vars

-----------------------------------------------------------------------------
(* Properties of the recommendation functions (SpecRec) *)

\* C1: recommend returns TOO_LARGE with fits=false exactly when
\* NOT (min(length,width) <= 385 AND max(length,width) <= 500), whatever the
\* height; the comparisons are inclusive, the verdict does not change when
\* length and width are swapped, and recommend(500, 385, 50) is SMALL.
C1_FootprintRejection ==
    called =>
        LET l == args.lenMM
            w == args.widMM
            h == args.htMM
            lo == IF l <= w THEN l ELSE w
            hi == IF l <= w THEN w ELSE l
            tooLarge == ~(lo <= 3850 /\ hi <= 5000)
        IN  /\ (apiRec.size = "TOO_LARGE") <=> tooLarge
            /\ tooLarge => apiRec.fits = FALSE
            /\ (uiRec.label = "Too large for footprint") <=> tooLarge
            /\ apiRec.size = recommendLocker(w, l, h).size
            /\ uiRec.label = uiRecommendLocker(w, l, h).label
            /\ (l = 5000 /\ w = 3850 /\ h = 500) => apiRec.size = "SMALL"

\* a footprint one tenth over the long limit has been rejected
C1_Witness ==
    /\ called
    /\ args = [lenMM |-> 5001, widMM |-> 3850, htMM |-> 500]
    /\ apiRec.size = "TOO_LARGE"

\* C2: when the footprint check passes, recommend returns with fits=true the
\* first of SMALL, MEDIUM, LARGE whose height limit (110.2 / 222.2 / 301 mm)
\* is >= the height; a height equal to a limit gets that tier.
C2_FirstTierInclusive ==
    (called /\ apiRec.size # "TOO_LARGE") =>
        LET h == args.htMM
        IN  /\ h <= 1102 =>
                apiRec.size = "SMALL" /\ apiRec.fits /\ uiRec.sizeKey = "small"
            /\ (1102 < h /\ h <= 2222) =>
                apiRec.size = "MEDIUM" /\ apiRec.fits /\ uiRec.sizeKey = "medium"
            /\ (2222 < h /\ h <= 3010) =>
                apiRec.size = "LARGE" /\ apiRec.fits /\ uiRec.sizeKey = "large"

\* a height exactly on SMALL's limit has been classified
C2_Witness ==
    /\ called
    /\ args = [lenMM |-> 2500, widMM |-> 1800, htMM |-> 1102]
    /\ apiRec.size = "SMALL"

\* C3: recommend returns TOO_TALL with fits=false exactly when the footprint
\* check passes and the height is greater than 301 mm; a parcel failing the
\* footprint check is never TOO_TALL.
C3_TooTall ==
    called =>
        LET l == args.lenMM
            w == args.widMM
            lo == IF l <= w THEN l ELSE w
            hi == IF l <= w THEN w ELSE l
            footprintOK == lo <= 3850 /\ hi <= 5000
        IN  /\ (apiRec.size = "TOO_TALL") <=> (footprintOK /\ args.htMM > 3010)
            /\ apiRec.size = "TOO_TALL" => apiRec.fits = FALSE

\* 301.1 mm on a fitting footprint has been classified
C3_Witness ==
    /\ called
    /\ args = [lenMM |-> 2500, widMM |-> 1800, htMM |-> 3011]
    /\ apiRec.size = "TOO_TALL"

\* C4 as stated: recommend(400, 180, 50) returns TOO_LARGE with fits=false.
C4_Original ==
    (called /\ args = [lenMM |-> 4000, widMM |-> 1800, htMM |-> 500]) =>
        apiRec.size = "TOO_LARGE" /\ apiRec.fits = FALSE

\* C4 (amended): recommend(400, 180, 50) returns SMALL with fits=true, since
\* min = 180 <= 385 and max = 400 <= 500; a footprint whose shorter side
\* exceeds 385 mm, such as 400 x 390, is TOO_LARGE with fits=false at every
\* height.
C4_Amended ==
    called =>
        /\ (args = [lenMM |-> 4000, widMM |-> 1800, htMM |-> 500]) =>
              /\ apiRec.size = "SMALL" /\ apiRec.fits = TRUE
              /\ uiRec.sizeKey = "small"
        /\ (args.lenMM = 4000 /\ args.widMM = 3900) =>
              /\ apiRec.size = "TOO_LARGE" /\ apiRec.fits = FALSE
              /\ uiRec.label = "Too large for footprint"

\* recommend(400, 180, 50) has been evaluated
C4_Witness ==
    /\ called
    /\ args = [lenMM |-> 4000, widMM |-> 1800, htMM |-> 500]
    /\ apiRec.fits = TRUE

-----------------------------------------------------------------------------
(* Properties of the HTTP handler (SpecApi) *)

MeasurementFields == {"length_mm", "width_mm", "height_mm"}

\* the request is a POST whose body is a JSON object with a measurements
\* object holding three numbers, all strictly positive
ValidPost ==
    /\ req.method = "POST"
    /\ req.body.kind = "object"
    /\ req.body.measurements.kind = "object"
    /\ \A f \in MeasurementFields :
          req.body.measurements[f].t = "number" /\ req.body.measurements[f].v > 0

\* C5: a POST with three strictly positive numbers is answered with 200 and
\* success:true, and lockerRecommendation.size is one of the five sizes and is
\* the size the pure function gives for the same inputs.
C5_ValidPost200 ==
    ValidPost =>
        /\ res.status = 200
        /\ res.json.success = TRUE
        /\ res.json.lockerRecommendation.size
              \in {"SMALL", "MEDIUM", "LARGE", "TOO_LARGE", "TOO_TALL"}
        /\ res.json.lockerRecommendation.size =
              recommendLocker(req.body.measurements.length_mm.v,
                              req.body.measurements.width_mm.v,
                              req.body.measurements.height_mm.v).size

\* a valid POST of a parcel that is too tall has been answered
C5_Witness ==
    /\ ValidPost
    /\ req.body.measurements.height_mm.v = 3011
    /\ res.status = 200
    /\ res.json.lockerRecommendation.size = "TOO_TALL"

\* the request is a POST with a body (a JSON object or a text payload) in
\* which measurements is missing, or one of the three fields is missing or not
\* a number, or one of them is <= 0
InvalidPost ==
    /\ req.method = "POST"
    /\ req.body.kind \in {"object", "string"}
    /\ \/ req.body.kind = "string"
       \/ req.body.measurements.kind # "object"
       \/ \E f \in MeasurementFields : req.body.measurements[f].t # "number"
       \/ \E f \in MeasurementFields : req.body.measurements[f].v <= 0

C7_Original ==
    (req # NoReq /\ req.method # "POST") => res.status = 405

\* C7 (amended): every request whose method is neither POST nor OPTIONS
\* (GET, PUT, DELETE, ...) is answered with 405; an OPTIONS request, the CORS
\* preflight, is answered with 200 and an empty body.
C7_Amended ==
    /\ (req # NoReq /\ req.method \notin {"POST", "OPTIONS"}) =>
          res.status = 405 /\ res.sent = "json"
    /\ req.method = "OPTIONS" => res.status = 200 /\ res.sent = "end"

\* a GET has been answered
C7_Witness == req.method = "GET" /\ res.status = 405

\* C8: every error response (400, 405, 500) carries success:false together
\* with an error message.
C8_ErrorEnvelope ==
    res.status \in {400, 405, 500} =>
        /\ {"success", "error"} \subseteq DOMAIN res.json
        /\ res.json.success = FALSE
        /\ res.json.error \in STRING

\* C9: a POST whose body is not a JSON object (absent body, or a non-JSON
\* payload) is answered with 400, not with 500 or 200.
C9_NonObjectBody400 ==
    (req.method = "POST" /\ req.body.kind # "object") => res.status = 400

-----------------------------------------------------------------------------
(* Properties of the PhotoMeasure component (SpecUI) *)

\* scale s is the one resolved from endpoints a, b and reference length r
ScaleResolved(a, b, r, s) ==
    LET d2 == (a.x - b.x) * (a.x - b.x) + (a.y - b.y) * (a.y - b.y)
    IN  /\ (d2 = 0 \/ r <= 0) => s = [rad |-> 0, den |-> 1]
        /\ a = b => s.rad = 0
        /\ (d2 # 0 /\ r > 0) => s = [rad |-> d2, den |-> r] /\ s.rad > 0 /\ s.den > 0
        /\ s.rad >= 0 /\ s.den > 0

\* C10: the scale of each photo is 0 when the distance between its calibration
\* endpoints is 0 or its reference length is <= 0, and otherwise is
\* distance/reference length and strictly positive; it is never negative, and
\* it is the scale of the current endpoints and reference length after every
\* change to them.
C10_ScaleResolved ==
    /\ ScaleResolved(topCalA, topCalB, topCalReal, topPxPerMM)
    /\ ScaleResolved(sideCalA, sideCalB, sideCalReal, sidePxPerMM)

\* the top line has been dragged onto a single point and a negative reference
\* length has been typed for the side photo
C10_Witness ==
    /\ topImgURL # 0 /\ topCalA = topCalB /\ topCalReal > 0
    /\ topPxPerMM = ZeroScale
    /\ sideImgURL # 0 /\ sideCalA # sideCalB /\ sideCalReal < 0
    /\ sidePxPerMM = ZeroScale

-----------------------------------------------------------------------------
(* Claims about the top rectangle and the measurements derived from it *)

\* C11: whenever the scale of the top photo is positive, lengthMM is the
\* larger and widthMM the smaller of w / pxPerMM and h / pxPerMM of the
\* rectangle, so lengthMM >= widthMM; both are the same when w and h are
\* swapped; and areaCM2 is lengthMM * widthMM / 100.
C11_TopFaceExtraction ==
    topPxPerMM.rad > 0 /\ topPxPerMM.den > 0 =>
        LET big   == Max(topRect.w, topRect.h)
            small == Min(topRect.w, topRect.h)
        IN  /\ lengthMM = [num |-> big * topPxPerMM.den, rad |-> topPxPerMM.rad]
            /\ widthMM = [num |-> small * topPxPerMM.den, rad |-> topPxPerMM.rad]
            /\ lengthMM.num >= widthMM.num
            /\ maxMM(topHmm, topWmm) = lengthMM
            /\ minMM(topHmm, topWmm) = widthMM
            /\ areaCM2 = mulDiv(big * topPxPerMM.den, small * topPxPerMM.den,
                                topPxPerMM.rad * 10000)

\* a rectangle drawn taller than wide on a calibrated photo
C11_Witness ==
    /\ topPlaced /\ topPxPerMM.rad > 0
    /\ topRect.w > 0 /\ topRect.h > topRect.w
    /\ lengthMM = topHmm

\* the corner diagonally opposite to corner c
oppositeCorner(c) ==
    CASE c = "tl" -> "br"
      [] c = "tr" -> "bl"
      [] c = "br" -> "tl"
      [] c = "bl" -> "tr"

\* the step is a pointer move handled by corner handle c while it is dragged
CornerMoveStep(c) ==
    /\ pointer = c /\ pointer' = c /\ cornerDown[c]
    /\ topDecoding' = topDecoding

\* the step is a pointer move handled by the body of the rectangle while it
\* is dragged
BodyMoveStep ==
    /\ pointer = "body" /\ pointer' = "body" /\ bodyDown
    /\ topDecoding' = topDecoding

\* C12: a step from a rectangle with w >= 0 and h >= 0 leaves w >= 0 and
\* h >= 0, whatever corner is dragged to whatever point, and a move of one
\* corner leaves the coordinates of the opposite corner as they were.
C12_CornerDrag ==
    [][ /\ (topRect.w >= 0 /\ topRect.h >= 0) => (topRect'.w >= 0 /\ topRect'.h >= 0)
        /\ \A c \in Corners :
              CornerMoveStep(c) =>
                  cornerAt(oppositeCorner(c), topRect')
                      = cornerAt(oppositeCorner(c), topRect) ]_vars

\* the top-left corner is held past the bottom-right corner of the placed
\* rectangle, which has collapsed onto that corner
C12_Witness ==
    /\ pointer = "tl" /\ cornerDown["tl"]
    /\ topRect = [x |-> 29, y |-> 27, w |-> 0, h |-> 0]

\* the rectangle lies inside the photo of size sz
insideImage(rect, sz) ==
    /\ rect.x >= 0 /\ rect.y >= 0
    /\ rect.x + rect.w <= sz.w /\ rect.y + rect.h <= sz.h

\* C13: after every move of a body drag the position satisfies
\* 0 <= x <= imageW - w and 0 <= y <= imageH - h, and w and h are as before.
C13_BodyDragClamped ==
    [][ BodyMoveStep =>
            /\ 0 <= topRect'.x /\ topRect'.x <= topImgSize'.w - topRect'.w
            /\ 0 <= topRect'.y /\ topRect'.y <= topImgSize'.h - topRect'.h
            /\ topRect'.w = topRect.w /\ topRect'.h = topRect.h ]_vars

\* C14: after any corner move and any body move on a photo whose size is
\* known, the rectangle lies inside the photo.
C14_RectInsideImage ==
    [][ ((\E c \in Corners : CornerMoveStep(c)) \/ BodyMoveStep) /\ topImgSize.w > 0
            => insideImage(topRect', topImgSize') ]_vars

-----------------------------------------------------------------------------
(* Claims about readiness, the stepper and the recommendation *)

\* C15: a chosen photo whose scale is 0 (coincident calibration endpoints or
\* a reference length <= 0) has zero measurements and a false readiness
\* flag, and no recommendation is shown while a scale is 0.
C15_DegenerateNotReady ==
    /\ (topImgURL # 0 /\ topPxPerMM = ZeroScale) =>
            (lengthMM.num = 0 /\ widthMM.num = 0 /\ ~stepDoneTop)
    /\ (sideImgURL # 0 /\ sidePxPerMM = ZeroScale) =>
            (heightMM.num = 0 /\ ~stepDoneSide)
    /\ resultShown => (topPxPerMM # ZeroScale /\ sidePxPerMM # ZeroScale)

\* the decode of the chosen top photo has not resolved
topUndecoded == topImgURL # 0 /\ \E d \in topDecoding : d.url = topImgURL

\* the decode of the chosen side photo has not resolved
sideUndecoded == sideImgURL # 0 /\ \E d \in sideDecoding : d.url = sideImgURL

\* C16: as long as the decode of the chosen photo has not resolved, its step
\* is not ready: the side step cannot be entered and no recommendation is
\* shown.
C16_UndecodedNotReady ==
    /\ topUndecoded => (~stepDoneTop /\ step = "top")
    /\ sideUndecoded => ~stepDoneSide
    /\ (topUndecoded \/ sideUndecoded) => ~resultShown

\* length, width and height are strictly positive (every value of the model
\* is finite)
positiveArgs(a) ==
    a.lenMM.num > 0 /\ a.widMM.num > 0 /\ a.htMM.num > 0 /\ a.htMM.radN > 0

\* C17 as claimed: the recommendation function is only ever called with a
\* strictly positive length, width and height.
C17_Original == positiveArgs(recArgs)

\* C17: the result of the recommendation function is shown only while both
\* photos are chosen and the length, width and height it was called with are
\* strictly positive.
C17_Amended ==
    resultShown => (positiveArgs(recArgs) /\ topImgURL # 0 /\ sideImgURL # 0)

\* the recommendation is shown for a placed rectangle and a placed height line
C17_Witness == resultShown /\ topPlaced /\ sidePlaced /\ pointer = "none"

\* C18: the side step is entered only by a step taken while the top step is
\* ready, and the top step is ready in every state in which the side step is
\* shown.
C18_SideOnlyWhenTopReady ==
    [][ /\ (step = "top" /\ step' = "side") => stepDoneTop
        /\ step' = "side" => stepDoneTop' ]_vars

\* the side step is shown after the decode of the top photo resolved in it
C18_Witness ==
    /\ step = "side" /\ stepDoneTop
    /\ topPlaced /\ topDecoding = {} /\ sideImgURL # 0

-----------------------------------------------------------------------------
(* Claims about gestures *)

\* no element of the stage holds a drag: every down flag is false
idle ==
    /\ \A h \in Handles : ~downRef[h]
    /\ \A c \in Corners : ~cornerDown[c]
    /\ ~bodyDown

\* C19: when the captured pointer is released or cancelled every primitive is
\* idle and no magnifier is shown, and while no pointer is captured the
\* geometry changes only by choosing or decoding a photo.
C19_DragEnds ==
    [][ /\ (pointer # "none" /\ pointer' = "none") =>
                (idle' /\ ~showMagTop' /\ ~showMagSide')
        /\ (pointer = "none" /\ nextURL' = nextURL /\ topDecoding' = topDecoding) =>
                UNCHANGED <<topCalA, topCalB, topRect>> ]_vars

\* C20: when a drag of a line endpoint ends with a pointer move still waiting
\* for its frame, the endpoint is at the position of that move, the last one
\* of the drag; the end of the drag and every frame callback leave the other
\* endpoint of the line as it was.
C20_LastMoveWins ==
    [][ \A h \in Handles :
          /\ (pointer = h /\ pointer' = "none" /\ ~downRef'[h]) =>
                /\ (rafRef[h].set /\ pendingRef[h].set) => posOf(h)' = pendingRef[h].p
                /\ otherEnd(h)' = otherEnd(h)
          /\ (pointer = h /\ pointer' = h /\ rafRef[h].set /\ ~rafRef'[h].set) =>
                otherEnd(h)' = otherEnd(h) ]_vars


-----------------------------------------------------------------------------
(* Properties of the loading of photos (SpecLoad) *)

\* the geometry that the placement effect of each photo sets
topGeometry == <<topCalA, topCalB, topRect>>
sideGeometry == <<sideCalA, sideCalB, sideHeightA, sideHeightB>>

\* what the placement effects set for a photo of size sz
topPlacement(sz) == <<placedCalA(sz), placedCalB(sz), placedRect(sz)>>
sidePlacement(sz) ==
    <<placedCalA(sz), placedCalB(sz), placedHeightA(sz), placedHeightB(sz)>>

positiveSize(sz) == sz.w > 0 /\ sz.h > 0

\* a step made by a pointer event or an animation frame of a drag: the user
\* is editing, no decode resolves
editStep ==
    pointer # "none" /\ topDecoding' = topDecoding /\ sideDecoding' = sideDecoding

\* the photo shown on a stage finishes loading in this step: the decode d of
\* the object URL that is displayed resolves
topLoadStep(d) ==
    d \in topDecoding /\ topDecoding' = topDecoding \ {d} /\ d.url = topImgURL
sideLoadStep(d) ==
    d \in sideDecoding /\ sideDecoding' = sideDecoding \ {d} /\ d.url = sideImgURL

\* C21: for each photo session the default placement of the geometry happens
\* once per loaded photo, in the step in which the size of the photo becomes
\* known with width > 0 and height > 0, and sets the placed flag; apart from
\* the edits of the user, no other step changes the geometry until a new
\* photo is loaded.
C21_PlacedOncePerPhoto ==
    [][ /\ \A d \in topDecoding :
              (topLoadStep(d) /\ positiveSize(d.sz)) =>
                  topPlaced' /\ topGeometry' = topPlacement(d.sz)
        /\ \A d \in sideDecoding :
              (sideLoadStep(d) /\ positiveSize(d.sz)) =>
                  sidePlaced' /\ sideGeometry' = sidePlacement(d.sz)
        /\ (topGeometry' # topGeometry /\ ~editStep) =>
              \E d \in topDecoding : topLoadStep(d) /\ positiveSize(d.sz)
        /\ (sideGeometry' # sideGeometry /\ ~editStep) =>
              \E d \in sideDecoding : sideLoadStep(d) /\ positiveSize(d.sz)
      ]_vars

\* C22: when a second photo is selected for a step while the decode of the
\* first is pending, then once both decodes have resolved, in whichever
\* order, the size held for the step (the bounds of the stage) is that of the
\* photo selected last, the one displayed.
C22_LatestPhotoWins ==
    /\ (topImgURL # 0 /\ topDecoding = {}) => topImgSize \in LoadSizes(topImgURL)
    /\ (sideImgURL # 0 /\ sideDecoding = {}) => sideImgSize \in LoadSizes(sideImgURL)

-----------------------------------------------------------------------------
(* The two recommendation functions side by side (SpecRec) *)

\* the catalogue key of an endpoint size, "null" for TOO_LARGE and TOO_TALL
keyOfSize(size) ==
    CASE size = "SMALL"  -> "small"
      [] size = "MEDIUM" -> "medium"
      [] size = "LARGE"  -> "large"
      [] OTHER           -> "null"

\* C23: on every (length, width, height) the component's recommendLocker and
\* the endpoint's recommendLocker classify alike: the component returns the
\* key small / medium / large exactly when the endpoint returns SMALL /
\* MEDIUM / LARGE with fits = true, "Too large for footprint" exactly when
\* the endpoint returns TOO_LARGE, and "Height exceeds LARGE" exactly when it
\* returns TOO_TALL; in the endpoint fits is true exactly when size is a tier,
\* and lockerSpecs then holds the limits of that tier.
C23_SameClassification ==
    called =>
        LET tier == apiRec.size \in {"SMALL", "MEDIUM", "LARGE"}
        IN  /\ \A k \in {"small", "medium", "large"} :
                  (uiRec.sizeKey = k) <=> (apiRec.fits /\ keyOfSize(apiRec.size) = k)
            /\ tier => uiRec.label = apiRec.size
            /\ (uiRec.label = "Too large for footprint") <=> (apiRec.size = "TOO_LARGE")
            /\ (uiRec.label = "Height exceeds LARGE") <=> (apiRec.size = "TOO_TALL")
            /\ apiRec.size \in {"SMALL", "MEDIUM", "LARGE", "TOO_LARGE", "TOO_TALL"}
            /\ apiRec.fits <=> tier
            /\ tier => apiRec.lockerSpecs =
                          [length_mm |-> 3850, width_mm |-> 5000,
                           height_mm |-> CASE apiRec.size = "SMALL"  -> 1102
                                           [] apiRec.size = "MEDIUM" -> 2222
                                           [] apiRec.size = "LARGE"  -> 3010]

\* a height exactly on MEDIUM's limit, on a footprint given long side first,
\* has been classified by both functions
C23_Witness ==
    /\ called
    /\ args = [lenMM |-> 5000, widMM |-> 3850, htMM |-> 2222]
    /\ apiRec.size = "MEDIUM"
    /\ uiRec.sizeKey = "medium"

====
